---------------------------- MODULE Spec2Model ----------------------------
(***************************************************************************)
(* Control-flow execution of Caffe2 nets as shown in                       *)
(* caffe2/python/tutorials/Control_Ops.ipynb: conditional (If) and loop    *)
(* (While) constructs over block-scoped blobs, with backpropagation.       *)
(*                                                                         *)
(* The nets are the ones the notebook builds.  The block rules are the     *)
(* ones the notebook states for NetBuilder.  Error propagation, scope      *)
(* disposal on error paths and the execution trace of the gradient pass    *)
(* are not in the notebook and follow the design document.                 *)
(***************************************************************************)
EXTENDS Integers, Sequences, FiniteSets, TLC

(***************************************************************************)
(* Blob values.  The notebook's float blobs are multiples of 0.5 (0.5,     *)
(* 1.5, -0.5, 4.0 ...): a value is stored as its number of halves, so 0.5  *)
(* is 1 and 4.0 is 8.  Integer blobs (the loop counters) use the same      *)
(* representation.                                                         *)
(***************************************************************************)
Scale == 2

Whole(n) == n * Scale

Max(S) == CHOOSE m \in S : \A k \in S : k <= m

\* The x values the nets are run with, in halves: -0.5, 0.5, 1.5.
XVals == {-1, 1, 3}

\* Bounds of the enumerated inputs.
MaxN == 7

MaxBase == 2

\* Ghost iteration counters of a loop that never ends stop here.
MaxIter == MaxN + 2

(***************************************************************************)
(* Operators of a net.                                                     *)
(***************************************************************************)
Const(v, o) == [k |-> "Const", v |-> v, out |-> o]

Copy(i, o) == [k |-> "Copy", in |-> i, out |-> o]

Add(a, b, o) == [k |-> "Add", a |-> a, b |-> b, out |-> o]

Pow(i, o, e) == [k |-> "Pow", in |-> i, out |-> o, e |-> e]

GT(a, b, o) == [k |-> "GT", a |-> a, b |-> b, out |-> o]

LE(a, b, o) == [k |-> "LE", a |-> a, b |-> b, out |-> o]

LT(a, b, o) == [k |-> "LT", a |-> a, b |-> b, out |-> o]

IfNet(c, t, e) == [k |-> "If", cond |-> c, then |-> t, else |-> e, hasElse |-> TRUE]

IfNetNoElse(c, t) == [k |-> "If", cond |-> c, then |-> t, else |-> <<>>, hasElse |-> FALSE]

WhileNet(cs, c, b) == [k |-> "While", cond |-> cs, condBlob |-> c, body |-> b]

IsSimple(op) == op.k \in {"Const", "Copy", "Add", "Pow", "GT", "LE", "LT"}

\* The blobs an operator reads.
Ins(op) ==
    CASE op.k = "Const" -> {}
      [] op.k \in {"Copy", "Pow"} -> {op.in}
      [] op.k \in {"Add", "GT", "LE", "LT"} -> {op.a, op.b}
      [] op.k = "If" -> {op.cond}
      [] OTHER -> {}

(***************************************************************************)
(* The nets of the notebook.  An anonymous blob (ops.Const(1), the output  *)
(* of ops.GT([...])) gets a name of its own.                               *)
(***************************************************************************)
\* if_net_test: y = one when x > zero, y = zero otherwise.
IfNetTest(x) ==
    << Const(Whole(0), "zero"), Const(Whole(1), "one"), Const(x, "x"),
       Const(Whole(0), "y"),
       GT("x", "zero", "c1"),
       IfNet("c1", << Copy("one", "y") >>, << Copy("zero", "y") >>) >>

\* The then-branch of if_net_test_2.
NestedThen ==
    << Copy("x", "local_blob"),
       LE("local_blob", "one", "c2"),
       IfNet("c2", << Copy("one", "y") >>, << Copy("two", "y") >>) >>

\* The else-branch of if_net_test_2; readsLocal adds the line the notebook
\* comments out, which reads the then-branch's local_blob.
NestedElse(readsLocal) ==
    IF readsLocal
    THEN << Copy("zero", "y"), Copy("local_blob", "z") >>
    ELSE << Copy("zero", "y") >>

\* if_net_test_2, with or without its optional Else.
IfNetTest2(x, withElse, readsLocal) ==
    << Const(Whole(0), "zero"), Const(Whole(1), "one"), Const(Whole(2), "two"),
       Const(x, "x"), Const(Whole(0), "y"),
       GT("x", "zero", "c1"),
       IF withElse
       THEN IfNet("c1", NestedThen, NestedElse(readsLocal))
       ELSE IfNetNoElse("c1", NestedThen) >>

\* Mutant of WhileNetTest: the condition compares with < instead of <=.
WhileNetTestLT(n, counting) ==
    << Const(Whole(0), "i"), Const(Whole(0), "y"),
       WhileNet(
         (IF counting
          THEN << Const(Whole(1), "k1"), Add("i", "k1", "i") >>
          ELSE << >>)
         \o << Const(Whole(n), "k2"), LT("i", "k2", "c1") >>,
         "c1",
         << Add("i", "y", "y") >>) >>

\* while_net_test: increment i, continue while i <= n, add i into y.
\* With counting = FALSE the increment is left out and the condition is
\* true for ever.
WhileNetTest(n, counting) ==
    << Const(Whole(0), "i"), Const(Whole(0), "y"),
       WhileNet(
         (IF counting
          THEN << Const(Whole(1), "k1"), Add("i", "k1", "i") >>
          ELSE << >>)
         \o << Const(Whole(n), "k2"), LE("i", "k2", "c1") >>,
         "c1",
         << Add("i", "y", "y") >>) >>

\* The conditional backpropagation example: z = y^2 when x > 0, else y^3.
\* x is fed from outside (initial_scope = ["x"]).
IfGradNet(y) ==
    << Const(Whole(0), "zero"), Const(Whole(1), "one"), Const(Whole(y), "y"),
       Const(Whole(0), "z"),
       GT("x", "zero", "c1"),
       IfNet("c1", << Pow("y", "z", 2) >>, << Pow("y", "z", 3) >>) >>

\* The loop backpropagation example: x^4, y^2, z^3 in two iterations.
WhileGradNet(x, y, z) ==
    << Const(Whole(0), "k0"), Copy("k0", "i"),
       Const(Whole(1), "k1"), Copy("k1", "one"),
       Const(Whole(2), "k2"), Copy("k2", "two"),
       Const(Whole(x), "kx"), Copy("kx", "x"),
       Const(Whole(y), "ky"), Copy("ky", "y"),
       Const(Whole(z), "kz"), Copy("kz", "z"),
       WhileNet(
         << Add("i", "one", "i"), LE("i", "two", "c1") >>,
         "c1",
         << Pow("x", "x", 2),
            LT("i", "two", "c2"),
            IfNet("c2", << Pow("y", "y", 2) >>, << Pow("z", "z", 3) >>) >>),
       Add("x", "y", "x_plus_y"),
       Add("x_plus_y", "z", "s") >>

(***************************************************************************)
(* What is run: a net, the blobs fed before each run of it, the blob whose *)
(* gradients are asked for, whether the net went through NetBuilder's      *)
(* sanity checks, and whether its operators may fail.                      *)
(***************************************************************************)
Job(id, ops, grad, feeds, n, x, y, z) ==
    [id |-> id, ops |-> ops, grad |-> grad, feeds |-> feeds,
     n |-> n, x |-> x, y |-> y, z |-> z]

Nets ==
    {Job("if_net_test", IfNetTest(x), "", <<>>, 0, x, 0, 0) : x \in XVals}
    \cup {Job("if_net_test_2", IfNetTest2(x, TRUE, FALSE), "", <<>>, 0, x, 0, 0) : x \in XVals}
    \cup {Job("if_no_else", IfNetTest2(x, FALSE, FALSE), "", <<>>, 0, x, 0, 0) : x \in XVals}
    \cup {Job("if_else_reads_local", IfNetTest2(x, TRUE, TRUE), "", <<>>, 0, x, 0, 0) : x \in XVals}
    \cup {Job("while_net_test", WhileNetTest(n, TRUE), "", <<>>, n, 0, 0, 0) : n \in 0..MaxN}
    \cup {Job("while_forever", WhileNetTest(n, FALSE), "", <<>>, n, 0, 0, 0) : n \in {MaxN}}
    \cup {Job("if_grad", IfGradNet(y), "z", <<x1>>, 0, 0, y, 0) :
            x1 \in XVals, y \in {1, 4}}
    \cup {Job("if_grad", IfGradNet(y), "z", <<x1, x2>>, 0, 0, y, 0) :
            x1 \in XVals, x2 \in XVals, y \in {1, 4}}
    \cup {Job("while_grad", WhileGradNet(x, y, z), "s", <<>>, 0, x, y, z) :
            x \in 1..MaxBase, y \in {1, 3}, z \in 1..MaxBase}

(***************************************************************************)
(* Workspaces.  A scope maps the blobs it holds to their values; scopes is *)
(* the chain of workspaces from the outermost (index 1) to the innermost.  *)
(***************************************************************************)
EmptyScope == [m \in {} |-> 0]

Bind(s, n, v) == [m \in DOMAIN s \cup {n} |-> IF m = n THEN v ELSE s[m]]

\* The innermost scope of the chain holding blob n, 0 when none does.
Holder(sc, n) ==
    LET ds == {d \in 1..Len(sc) : n \in DOMAIN sc[d]}
    IN IF ds = {} THEN 0 ELSE Max(ds)

Visible(sc, n) == Holder(sc, n) # 0

\* The value of blob n; a blob that is nowhere reads as 0, and no operator
\* is run on such a read (CanRun below).
Read(sc, n) == IF Visible(sc, n) THEN sc[Holder(sc, n)][n] ELSE 0

\* Mutant of Write: every write creates or updates a blob of the current
\* block, also when the blob exists in a parent block.
WriteAlwaysLocal(sc, n, v) == [sc EXCEPT ![Len(sc)] = Bind(@, n, v)]

\* A write into a blob seen before updates the blob originally created; a
\* write into an unseen blob creates a local blob of the current block.
Write(sc, n, v) ==
    LET d == IF Visible(sc, n) THEN Holder(sc, n) ELSE Len(sc)
    IN [sc EXCEPT ![d] = Bind(@, n, v)]

\* ws.blobs[n].fetch() after a run: only the outermost workspace is there.
Fetch(sc, n) ==
    IF n \in DOMAIN sc[1]
    THEN [ok |-> TRUE, v |-> sc[1][n], err |-> ""]
    ELSE [ok |-> FALSE, v |-> 0, err |-> "NotFound"]

(***************************************************************************)
(* NetBuilder's sanity check at construction: it tracks the outputs seen   *)
(* before the current point in the same block and in the parent blocks,    *)
(* and an operator's inputs have to be among them.                         *)
(***************************************************************************)
SeqOuts(ops) == {ops[j].out : j \in {j \in 1..Len(ops) : IsSimple(ops[j])}}

\* Mutant of WellFormed: only the operators of the block itself are checked,
\* not those of its branches, condition clauses and bodies.
RECURSIVE WellFormedShallow(_, _)
WellFormedShallow(ops, vis) ==
    IF Len(ops) = 0 THEN TRUE
    ELSE LET op == Head(ops) IN
         /\ Ins(op) \subseteq vis
         /\ WellFormedShallow(Tail(ops),
                              IF IsSimple(op) THEN vis \cup {op.out} ELSE vis)

RECURSIVE WellFormed(_, _)
WellFormed(ops, vis) ==
    IF Len(ops) = 0 THEN TRUE
    ELSE LET op == Head(ops) IN
         /\ Ins(op) \subseteq vis
         /\ CASE op.k = "If" ->
                    WellFormed(op.then, vis) /\ WellFormed(op.else, vis)
              [] op.k = "While" ->
                    /\ WellFormed(op.cond, vis)
                    /\ op.condBlob \in vis \cup SeqOuts(op.cond)
                    /\ WellFormed(op.body, vis)
              [] OTHER -> TRUE
         /\ WellFormed(Tail(ops), IF IsSimple(op) THEN vis \cup {op.out} ELSE vis)

(***************************************************************************)
(* Operator arithmetic on blob values.                                     *)
(***************************************************************************)
FxMul(a, b) == (a * b) \div Scale

RECURSIVE FxPow(_, _)
FxPow(v, e) == IF e = 0 THEN Whole(1) ELSE FxMul(v, FxPow(v, e - 1))

\* d(v^e)/dv
DPow(v, e) == e * FxPow(v, e - 1)

\* A condition blob is a scalar convertible to bool.
ToBool(v) == v # 0

FromBool(b) == IF b THEN 1 ELSE 0

Eval(op, sc) ==
    CASE op.k = "Const" -> op.v
      [] op.k = "Copy" -> Read(sc, op.in)
      [] op.k = "Add" -> Read(sc, op.a) + Read(sc, op.b)
      [] op.k = "Pow" -> FxPow(Read(sc, op.in), op.e)
      [] op.k = "GT" -> FromBool(Read(sc, op.a) > Read(sc, op.b))
      [] op.k = "LE" -> FromBool(Read(sc, op.a) <= Read(sc, op.b))
      [] op.k = "LT" -> FromBool(Read(sc, op.a) < Read(sc, op.b))

\* Mutant of CanRun: a blob that is not defined reads as an empty blob.
CanRunAlways(op, sc) == TRUE

\* An operator runs only when every blob it reads is defined.
CanRun(op, sc) == \A n \in Ins(op) : Visible(sc, n)

\* Mutant of BranchTaken: the branches are exchanged.
BranchTakenSwapped(c, hasElse) ==
    IF c THEN (IF hasElse THEN "else" ELSE "none") ELSE "then"

\* Mutant of BranchTaken: a missing Else runs the then-branch.
BranchTakenNoElseRunsThen(c, hasElse) ==
    IF c THEN "then" ELSE IF hasElse THEN "else" ELSE "then"

\* If executes then_net or else_net depending on the condition blob; the
\* Else is optional.
BranchTaken(c, hasElse) ==
    IF c THEN "then" ELSE IF hasElse THEN "else" ELSE "none"

\* Mutant of Continue: the sense of the condition is inverted, so a body
\* runs after a condition that yielded false.
ContinueInverted(c) == ~c

\* The condition clause determines whether the next iteration is executed.
Continue(c) == c

(***************************************************************************)
(* State.                                                                  *)
(***************************************************************************)
VARIABLES
    net,      \* the job: the net and its inputs
    checked,  \* the net is built through NetBuilder's sanity checks
    faulty,   \* operators of this run may fail
    phase,    \* "build", "fwd", "unwind", "bwd", "done", "failed", "rejected"
    ctl,      \* the blocks being executed, outermost first
    scopes,   \* their workspaces, outermost first
    err,      \* "none" or the kind of the error raised
    feeds,    \* values of x still to be fed for reruns
    runNo,    \* number of the current run of the net
    trace,    \* forward execution trace of the current run
    grads,    \* gradient blobs: grads[n] is blob n_grad
    bwdLog,   \* the trace entries run backward in the current run
    loops,    \* per finished loop: its counts of true conditions and bodies
    nOps,     \* number of operators executed
    last      \* what the last step did

vars == << net, checked, faulty, phase, ctl, scopes, err, feeds, runNo,
           trace, grads, bwdLog, loops, nOps, last >>

NoLoop == WhileNet(<< >>, "", << >>)

Frame(kind, ops, loop, nTrue, nBody) ==
    [kind |-> kind, ops |-> ops, pc |-> 1, loop |-> loop,
     nTrue |-> nTrue, nBody |-> nBody]

TopFrame(ops) == Frame("top", ops, NoLoop, 0, 0)

Pop(s) == SubSeq(s, 1, Len(s) - 1)

Top == ctl[Len(ctl)]

AtOp == Top.pc <= Len(Top.ops)

AtEnd == Top.pc > Len(Top.ops)

CurOp == Top.ops[Top.pc]

Advance(c) == [c EXCEPT ![Len(c)].pc = @ + 1]

\* The loop iteration the current block belongs to, 0 outside of loops; a
\* condition clause belongs to the iteration it gates.
CurIter(c) ==
    LET bs == {d \in 1..Len(c) : c[d].kind \in {"body", "cond"}}
        f == c[Max(bs)]
    IN IF bs = {} THEN 0
       ELSE IF f.kind = "body" THEN f.nBody ELSE f.nBody + 1

\* depth is the number of blocks on the stack before the step.
Event(ev, name, val, holder) ==
    [ev |-> ev, name |-> name, val |-> val, holder |-> holder,
     depth |-> Len(ctl), hasElse |-> FALSE]

IfEvent(cond, val, hasElse) ==
    [ev |-> "if", name |-> cond, val |-> val, holder |-> 0,
     depth |-> Len(ctl), hasElse |-> hasElse]

Ended == phase \in {"done", "failed", "rejected"}

Init ==
    /\ net \in Nets
    /\ checked \in BOOLEAN
    /\ faulty \in BOOLEAN
    /\ phase = "build"
    /\ ctl = << TopFrame(net.ops) >>
    \* FeedBlob("x", ...) before the net is built
    /\ scopes = << IF Len(net.feeds) > 0
                   THEN Bind(EmptyScope, "x", Head(net.feeds))
                   ELSE EmptyScope >>
    /\ feeds = IF Len(net.feeds) > 0 THEN Tail(net.feeds) ELSE << >>
    /\ err = "none"
    /\ runNo = 1
    /\ trace = << >>
    /\ grads = EmptyScope
    /\ bwdLog = << >>
    /\ loops = << >>
    /\ nOps = 0
    /\ last = Event("init", "", 0, 0)

(***************************************************************************)
(* Construction: NetBuilder refuses a net that reads an undefined blob.    *)
(***************************************************************************)
Build ==
    /\ phase = "build"
    /\ IF checked /\ ~WellFormed(net.ops, DOMAIN scopes[1])
       THEN /\ phase' = "rejected"
            /\ err' = "UndefinedInput"
            /\ last' = Event("reject", "", 0, 0)
       ELSE /\ phase' = "fwd"
            /\ err' = err
            /\ last' = Event("build", "", 0, 0)
    /\ UNCHANGED << net, checked, faulty, ctl, scopes, feeds, runNo, trace,
                    grads, bwdLog, loops, nOps >>

(***************************************************************************)
(* Forward execution.                                                      *)
(***************************************************************************)
Differentiable(op) == op.k \in {"Copy", "Add", "Pow"}

\* Mutant of TraceEntry: the value saved is the one the operator wrote, not
\* the one it read (for an in-place operator the input is already gone).
TraceEntrySavesOutput(op, sc, c) ==
    [op |-> op,
     saved |-> IF op.k = "Pow" THEN Eval(op, sc) ELSE 0,
     branch |-> c[Len(c)].kind,
     iter |-> CurIter(c)]

\* What the backward pass needs of the workspace saved for an operator.
TraceEntry(op, sc, c) ==
    [op |-> op,
     saved |-> IF op.k = "Pow" THEN Read(sc, op.in) ELSE 0,
     branch |-> c[Len(c)].kind,
     iter |-> CurIter(c)]

\* Raise error kind e in the current block; the events of an error carry
\* the depth of the block that raised it.
Raise(e, ev) ==
    /\ err' = e
    /\ phase' = "unwind"
    /\ last' = Event(ev, "", Len(ctl), 0)
    /\ UNCHANGED << net, checked, faulty, ctl, scopes, feeds, runNo, trace,
                    grads, bwdLog, loops, nOps >>

\* One operator of the current block runs to completion.
ExecOp ==
    /\ phase = "fwd"
    /\ AtOp
    /\ IsSimple(CurOp)
    /\ IF CanRun(CurOp, scopes)
       THEN /\ scopes' = Write(scopes, CurOp.out, Eval(CurOp, scopes))
            /\ ctl' = Advance(ctl)
            /\ trace' = IF net.grad # "" /\ Differentiable(CurOp)
                        THEN Append(trace, TraceEntry(CurOp, scopes, ctl))
                        ELSE trace
            /\ nOps' = nOps + 1
            /\ last' = Event("op", CurOp.out, Eval(CurOp, scopes),
                             Holder(scopes, CurOp.out))
            /\ UNCHANGED << net, checked, faulty, phase, err, feeds, runNo,
                            grads, bwdLog, loops >>
       ELSE Raise("UndefinedInput", "undef")

\* The operator about to run fails.
OpFails ==
    /\ phase = "fwd"
    /\ faulty
    /\ AtOp
    /\ IsSimple(CurOp)
    /\ Raise("OperatorFailure", "opfail")

\* If: run the branch the condition blob selects in a workspace of its own.
EnterIf ==
    /\ phase = "fwd"
    /\ AtOp
    /\ CurOp.k = "If"
    /\ IF ~Visible(scopes, CurOp.cond)
       THEN Raise("BadCondition", "badcond")
       ELSE LET c == ToBool(Read(scopes, CurOp.cond))
                b == BranchTaken(c, CurOp.hasElse)
            IN /\ IF b = "none"
                  THEN /\ ctl' = Advance(ctl)
                       /\ scopes' = scopes
                  ELSE /\ ctl' = Append(ctl,
                               Frame(b, IF b = "then" THEN CurOp.then ELSE CurOp.else,
                                     NoLoop, 0, 0))
                       /\ scopes' = Append(scopes, EmptyScope)
               /\ last' = IfEvent(CurOp.cond, FromBool(c), CurOp.hasElse)
               /\ UNCHANGED << net, checked, faulty, phase, err, feeds, runNo,
                               trace, grads, bwdLog, loops, nOps >>

\* Mutant of ExitBlock: the blobs of the finished block are kept in the
\* parent's workspace.
ExitBlockKeepsLocals(sc) ==
    LET inner == sc[Len(sc)]
        outer == sc[Len(sc) - 1]
    IN [Pop(sc) EXCEPT ![Len(sc) - 1] =
          [m \in DOMAIN outer \cup DOMAIN inner |->
              IF m \in DOMAIN inner THEN inner[m] ELSE outer[m]]]

\* A branch is finished: its local blobs are deleted with its workspace.
ExitBlock(sc) == Pop(sc)

ExitBranch ==
    /\ phase = "fwd"
    /\ Top.kind \in {"then", "else"}
    /\ AtEnd
    /\ ctl' = Advance(Pop(ctl))
    /\ scopes' = ExitBlock(scopes)
    /\ last' = Event("exit", "", 0, 0)
    /\ UNCHANGED << net, checked, faulty, phase, err, feeds, runNo, trace,
                    grads, bwdLog, loops, nOps >>

\* While: the condition clause is run first.
EnterWhile ==
    /\ phase = "fwd"
    /\ AtOp
    /\ CurOp.k = "While"
    /\ ctl' = Append(ctl, Frame("cond", CurOp.cond, CurOp, 0, 0))
    /\ scopes' = Append(scopes, EmptyScope)
    /\ last' = Event("while", "", 0, 0)
    /\ UNCHANGED << net, checked, faulty, phase, err, feeds, runNo, trace,
                    grads, bwdLog, loops, nOps >>

CondValue == ToBool(Read(scopes, Top.loop.condBlob))

CondReady ==
    /\ phase = "fwd"
    /\ Top.kind = "cond"
    /\ AtEnd

\* The condition clause is finished.  True: the body runs in a fresh
\* workspace.  False: the loop is over.
CondDone ==
    /\ CondReady
    /\ IF ~Visible(scopes, Top.loop.condBlob)
       THEN Raise("BadCondition", "badcond")
       ELSE /\ IF Continue(CondValue)
               THEN /\ Top.nBody < MaxIter
                    /\ ctl' = Append(Pop(ctl),
                                     Frame("body", Top.loop.body, Top.loop,
                                           Top.nTrue + FromBool(CondValue),
                                           Top.nBody + 1))
                    /\ scopes' = Append(ExitBlock(scopes), EmptyScope)
                    /\ loops' = loops
               ELSE /\ ctl' = Advance(Pop(ctl))
                    /\ scopes' = ExitBlock(scopes)
                    /\ loops' = Append(loops,
                                       [nTrue |-> Top.nTrue + FromBool(CondValue),
                                        nBody |-> Top.nBody])
            /\ last' = Event("cond", Top.loop.condBlob, FromBool(CondValue), 0)
            /\ UNCHANGED << net, checked, faulty, phase, err, feeds, runNo,
                            trace, grads, bwdLog, nOps >>

\* The body is finished: the condition clause is run again.
BodyDone ==
    /\ phase = "fwd"
    /\ Top.kind = "body"
    /\ AtEnd
    /\ ctl' = Append(Pop(ctl),
                     Frame("cond", Top.loop.cond, Top.loop, Top.nTrue, Top.nBody))
    /\ scopes' = Append(ExitBlock(scopes), EmptyScope)
    /\ last' = Event("body-done", "", 0, 0)
    /\ UNCHANGED << net, checked, faulty, phase, err, feeds, runNo, trace,
                    grads, bwdLog, loops, nOps >>

(***************************************************************************)
(* Errors: the failed operator aborts its block; every enclosing construct *)
(* disposes the workspace it created and passes the error on.              *)
(***************************************************************************)
\* Mutant of Dispose: the workspace of an aborted construct is left behind.
DisposeNothing(sc) == sc

\* An aborted construct disposes the workspace it created.
Dispose(sc) == Pop(sc)

UnwindPop ==
    /\ phase = "unwind"
    /\ Len(ctl) > 1
    /\ ctl' = Pop(ctl)
    /\ scopes' = Dispose(scopes)
    /\ last' = Event("unwind", "", last.val, 0)
    /\ UNCHANGED << net, checked, faulty, phase, err, feeds, runNo, trace,
                    grads, bwdLog, loops, nOps >>

UnwindEnd ==
    /\ phase = "unwind"
    /\ Len(ctl) = 1
    /\ phase' = "failed"
    /\ last' = Event("failed", "", last.val, 0)
    /\ UNCHANGED << net, checked, faulty, ctl, scopes, err, feeds, runNo,
                    trace, grads, bwdLog, loops, nOps >>

(***************************************************************************)
(* Backpropagation: the operators AddGradientOperators appends run the     *)
(* trace of the forward pass backward, from the blob differentiated.       *)
(***************************************************************************)
\* Blob n_grad receives contribution c of the operator writing out.
Accum(g, n, out, c) ==
    IF n \in DOMAIN g /\ n # out
    THEN [g EXCEPT ![n] = @ + c]
    ELSE Bind(g, n, c)

\* The value the backward step of a trace entry uses for its input.
SavedInput(e) == e.saved

\* The gradient operator of one trace entry.
Back(g, e) ==
    IF e.op.out \notin DOMAIN g THEN g
    ELSE LET go == g[e.op.out] IN
         CASE e.op.k = "Pow" ->
                Accum(g, e.op.in, e.op.out, FxMul(go, DPow(SavedInput(e), e.op.e)))
           [] e.op.k = "Copy" -> Accum(g, e.op.in, e.op.out, go)
           [] e.op.k = "Add" ->
                Accum(Accum(g, e.op.a, e.op.out, go), e.op.b, e.op.out, go)

\* Mutant of NextBack: the trace is run backward oldest entry first.
NextBackOldestFirst(t) == 1

\* The trace entry the next backward step runs: the latest one left.
NextBack(t) == Len(t)

\* Mutant of InitGrads: the gradient blobs of the previous run are kept.
InitGradsKeepsOld(g, out) == Bind(g, out, Whole(1))

\* The gradient blobs at the start of a backward pass: the gradient of the
\* blob differentiated is 1.
InitGrads(g, out) == Bind(EmptyScope, out, Whole(1))

FinishFwd ==
    /\ phase = "fwd"
    /\ Top.kind = "top"
    /\ AtEnd
    /\ IF net.grad # ""
       THEN /\ phase' = "bwd"
            /\ grads' = InitGrads(grads, net.grad)
            /\ bwdLog' = << >>
       ELSE /\ phase' = "done"
            /\ UNCHANGED << grads, bwdLog >>
    /\ last' = Event("fwd-done", "", 0, 0)
    /\ UNCHANGED << net, checked, faulty, ctl, scopes, err, feeds, runNo,
                    trace, loops, nOps >>

BackwardStep ==
    /\ phase = "bwd"
    /\ Len(trace) > 0
    /\ LET j == NextBack(trace)
           e == trace[j]
       IN /\ grads' = Back(grads, e)
          /\ trace' = [i \in 1..(Len(trace) - 1) |->
                          IF i < j THEN trace[i] ELSE trace[i + 1]]
          /\ bwdLog' = Append(bwdLog, [out |-> e.op.out, branch |-> e.branch,
                                       iter |-> e.iter])
    /\ last' = Event("bwd", "", 0, 0)
    /\ UNCHANGED << net, checked, faulty, phase, ctl, scopes, err, feeds,
                    runNo, loops, nOps >>

FinishBwd ==
    /\ phase = "bwd"
    /\ Len(trace) = 0
    /\ phase' = "done"
    /\ last' = Event("done", "", 0, 0)
    /\ UNCHANGED << net, checked, faulty, ctl, scopes, err, feeds, runNo,
                    trace, grads, bwdLog, loops, nOps >>

\* FeedBlob("x", ...) and RunNetOnce(net) again, in the same workspace.
Rerun ==
    /\ phase = "done"
    /\ Len(feeds) > 0
    /\ scopes' = << Bind(scopes[1], "x", Head(feeds)) >>
    /\ feeds' = Tail(feeds)
    /\ ctl' = << TopFrame(net.ops) >>
    /\ phase' = "fwd"
    /\ runNo' = runNo + 1
    /\ trace' = << >>
    /\ last' = Event("rerun", "", 0, 0)
    /\ UNCHANGED << net, checked, faulty, err, grads, bwdLog, loops, nOps >>

Next ==
    \/ Build
    \/ ExecOp
    \/ OpFails
    \/ EnterIf
    \/ ExitBranch
    \/ EnterWhile
    \/ CondDone
    \/ BodyDone
    \/ UnwindPop
    \/ UnwindEnd
    \/ FinishFwd
    \/ BackwardStep
    \/ FinishBwd
    \/ Rerun

Spec == Init /\ [][Next]_vars

\* A run is one synchronous thread of control: it keeps going while it can.
FairSpec == Spec /\ WF_vars(Next)

(***************************************************************************)
(* Properties.                                                             *)
(***************************************************************************)
FetchIs(n, v) == Fetch(scopes, n).ok /\ Fetch(scopes, n).v = v

FetchFails(n) == ~Fetch(scopes, n).ok /\ Fetch(scopes, n).err = "NotFound"

\* The blobs fed into the outermost workspace from outside.
Fed == IF Len(net.feeds) > 0 THEN {"x"} ELSE {}

\* The blobs the operators of a block, nested blocks included, write.
RECURSIVE AllOuts(_)
AllOuts(ops) ==
    IF Len(ops) = 0 THEN {}
    ELSE LET op == Head(ops) IN
         (CASE op.k = "If" -> AllOuts(op.then) \cup AllOuts(op.else)
            [] op.k = "While" -> AllOuts(op.cond) \cup AllOuts(op.body)
            [] OTHER -> {op.out})
         \cup AllOuts(Tail(ops))

\* The blobs first written inside a construct of the net.
LocalNames == AllOuts(net.ops) \ (SeqOuts(net.ops) \cup Fed)

\* The blobs block d of the stack introduces itself.
Intro(d) == SeqOuts(ctl[d].ops) \cup (IF d = 1 THEN Fed ELSE {})

\* A block has just been entered.
Fresh(kind) == Top.kind = kind /\ Top.pc = 1 /\ Len(ctl) = last.depth + 1

\* C1: every run of an If with both branches enters exactly one block, the
\* then-branch when the condition blob is true and the else-branch when it
\* is false; no block is entered exactly when the Else is absent and the
\* condition is false.  if_net_test ends with y = 1.0 when x > 0 and with
\* y = 0.0 otherwise.
C1_ExactlyOneBranch ==
    /\ last.ev = "if" =>
          /\ Len(scopes) = Len(ctl)
          /\ last.hasElse =>
                /\ Len(ctl) = last.depth + 1
                /\ last.val = 1 => Fresh("then")
                /\ last.val = 0 => Fresh("else")
          /\ Len(ctl) = last.depth <=> (~last.hasElse /\ last.val = 0)
          /\ Len(ctl) \in {last.depth, last.depth + 1}
    /\ (net.id = "if_net_test" /\ phase = "done") =>
          FetchIs("y", IF net.x > 0 THEN Whole(1) ELSE Whole(0))

C1_Witness ==
    /\ last.ev = "if"
    /\ last.hasElse
    /\ last.val = 0
    /\ Fresh("else")

\* C2: a blob first written inside a branch, a condition clause or a loop
\* body is held by the workspace of that block only, never by an enclosing
\* one; once the run has ended it is not in the workspace and a fetch of it
\* fails with NotFound.
C2_LocalsDisposed ==
    /\ Len(scopes) = Len(ctl)
    /\ \A d \in 1..Len(scopes) : DOMAIN scopes[d] \subseteq Intro(d)
    /\ Ended => \A n \in LocalNames : FetchFails(n)

C2_Witness ==
    /\ net.id = "if_net_test_2"
    /\ phase = "done"
    /\ FetchIs("y", Whole(2))
    /\ "local_blob" \in LocalNames
    /\ FetchFails("local_blob")

\* C3: a write to a blob that exists in an enclosing block updates the blob
\* where it was created and creates no local blob, at any depth; after
\* if_net_test_2 the outermost y holds the value the nested branch wrote.
C3_NestedWriteUpdatesOriginal ==
    /\ (last.ev = "op" /\ last.holder # 0) =>
          /\ last.name \in DOMAIN scopes[last.holder]
          /\ scopes[last.holder][last.name] = last.val
          /\ \A d \in 1..Len(scopes) :
                d # last.holder => last.name \notin DOMAIN scopes[d]
    /\ (net.id = "if_net_test_2" /\ phase = "done") =>
          FetchIs("y", IF net.x > Whole(1) THEN Whole(2)
                       ELSE IF net.x > 0 THEN Whole(1) ELSE Whole(0))

C3_Witness ==
    /\ last.ev = "op"
    /\ last.name = "y"
    /\ last.holder = 1
    /\ Len(scopes) = 3
    /\ last.val = Whole(2)
    /\ scopes[1]["y"] = Whole(2)

\* C4: while_net_test with limit n, started with i = 0 and y = 0, ends; when
\* it ends without a failure the body has run exactly n times and the
\* outermost workspace holds i = n + 1 and y = n(n+1)/2 (n = 7: 7 bodies,
\* i = 8, y = 28), so the increment of the last, false condition persists.
C4_Result ==
    (net.id = "while_net_test" /\ phase = "done") =>
        /\ loops = << [nTrue |-> net.n, nBody |-> net.n] >>
        /\ FetchIs("i", Whole(net.n + 1))
        /\ FetchIs("y", Whole((net.n * (net.n + 1)) \div 2))
        /\ err = "none"

C4_WhileSum ==
    /\ []C4_Result
    /\ (net.id = "while_net_test") ~> Ended
    /\ (net.id = "while_net_test" /\ ~faulty) ~> (phase = "done")

C4_Witness ==
    /\ net.id = "while_net_test"
    /\ net.n = 7
    /\ phase = "done"
    /\ loops = << [nTrue |-> 7, nBody |-> 7] >>
    /\ FetchIs("i", Whole(8))
    /\ FetchIs("y", Whole(28))

\* The frames of the loops in progress.
LoopFrames == {d \in 1..Len(ctl) : ctl[d].kind \in {"cond", "body"}}

\* C5: a loop starts with its condition clause; a body starts only right
\* after a condition that yielded true, and each true condition starts one;
\* a loop ends only right after a condition that yielded false; the bodies
\* run never outnumber the true conditions; a loop whose condition is
\* always true never ends.
C5_ConditionGatesBody ==
    /\ last.ev = "while" => Fresh("cond")
    /\ last.ev = "body-done" => (Top.kind = "cond" /\ Top.pc = 1)
    /\ (phase = "fwd" /\ Top.kind = "body" /\ Top.pc = 1) =>
          (last.ev = "cond" /\ last.val = 1)
    /\ last.ev = "cond" =>
          /\ last.val = 1 => (Top.kind = "body" /\ Top.pc = 1
                              /\ Len(ctl) = last.depth)
          /\ last.val = 0 => (Len(ctl) = last.depth - 1 /\ Len(loops) > 0)
    /\ \A d \in LoopFrames : ctl[d].nBody = ctl[d].nTrue
    /\ \A j \in 1..Len(loops) : loops[j].nBody = loops[j].nTrue
    /\ net.id = "while_forever" => (loops = << >> /\ phase # "done")

C5_Witness ==
    /\ net.id = "while_net_test"
    /\ Top.kind = "body"
    /\ Top.pc = 1
    /\ Top.nBody = 3
    /\ last.ev = "cond"
    /\ last.val = 1

\* The loop that never ends runs up to the bound of the model.
C5_ForeverWitness ==
    /\ net.id = "while_forever"
    /\ Top.kind = "body"
    /\ Top.nBody = MaxIter

GradIs(n, v) == n \in DOMAIN grads /\ grads[n] = v

\* C6: every run of the conditional backpropagation net, the first and the
\* rerun after x is fed again, ends with z = y^2 and y_grad = 2y when the x
\* of that run is > 0 and with z = y^3 and y_grad = 3y^2 otherwise, and only
\* the operator of the branch taken in that run is run backward.
C6_IfGradient ==
    (net.id = "if_grad" /\ phase = "done") =>
        LET x == scopes[1]["x"]
            y == net.y
        IN /\ x = net.feeds[runNo]
           /\ FetchIs("y", Whole(y))
           /\ x > 0 =>
                 /\ FetchIs("z", Whole(y * y))
                 /\ GradIs("y", Whole(2 * y))
                 /\ bwdLog = << [out |-> "z", branch |-> "then", iter |-> 0] >>
           /\ ~(x > 0) =>
                 /\ FetchIs("z", Whole(y * y * y))
                 /\ GradIs("y", Whole(3 * y * y))
                 /\ bwdLog = << [out |-> "z", branch |-> "else", iter |-> 0] >>

C6_Witness ==
    /\ net.id = "if_grad"
    /\ net.y = 4
    /\ net.feeds = << 1, -1 >>
    /\ runNo = 2
    /\ phase = "done"
    /\ FetchIs("z", Whole(64))
    /\ GradIs("y", Whole(48))

\* The backward steps of loop iteration it, in the order they were run.
BackSteps(it) == {j \in 1..Len(bwdLog) : bwdLog[j].iter = it}

\* C7: the loop backpropagation net started with x, y, z ends with x^4, y^2
\* and z^3 after two iterations, and with x_grad = 4x^3, y_grad = 2y and
\* z_grad = 3z^2 (x = 2, y = 3, z = 2: 16, 9, 8 and 32, 6, 12); the steps of
\* iteration 2 are run backward before those of iteration 1, one step of
\* the body per iteration.
C7_WhileGradient ==
    (net.id = "while_grad" /\ phase = "done") =>
        /\ loops = << [nTrue |-> 2, nBody |-> 2] >>
        /\ FetchIs("x", Whole(net.x * net.x * net.x * net.x))
        /\ FetchIs("y", Whole(net.y * net.y))
        /\ FetchIs("z", Whole(net.z * net.z * net.z))
        /\ GradIs("x", Whole(4 * net.x * net.x * net.x))
        /\ GradIs("y", Whole(2 * net.y))
        /\ GradIs("z", Whole(3 * net.z * net.z))
        /\ \A i, j \in 1..Len(bwdLog) :
              (i < j /\ bwdLog[i].iter > 0 /\ bwdLog[j].iter > 0) =>
                  bwdLog[i].iter >= bwdLog[j].iter
        /\ \A it \in 1..2 :
              Cardinality({j \in BackSteps(it) :
                              bwdLog[j].out = "x" /\ bwdLog[j].branch = "body"}) = 1
        /\ \E j \in BackSteps(1) : bwdLog[j].out = "y" /\ bwdLog[j].branch = "then"
        /\ \E j \in BackSteps(2) : bwdLog[j].out = "z" /\ bwdLog[j].branch = "else"
        /\ \A j \in 1..Len(bwdLog) :
              bwdLog[j].branch \in {"then", "else"} =>
                  (bwdLog[j].branch = "then" <=> bwdLog[j].iter = 1)

C7_Witness ==
    /\ net.id = "while_grad"
    /\ net.x = 2 /\ net.y = 3 /\ net.z = 2
    /\ phase = "done"
    /\ FetchIs("x", Whole(16)) /\ FetchIs("y", Whole(9)) /\ FetchIs("z", Whole(8))
    /\ GradIs("x", Whole(32)) /\ GradIs("y", Whole(6)) /\ GradIs("z", Whole(12))

\* The outermost workspace of if_net_test_2 when its If is reached.
BeforeIf2 ==
    [zero |-> Whole(0), one |-> Whole(1), two |-> Whole(2), x |-> net.x,
     y |-> Whole(0), c1 |-> FromBool(net.x > 0)]

\* C8: an If without Else whose condition is false enters no block, raises
\* no error and leaves every workspace as it was: after it the outermost
\* workspace of if_no_else holds the blobs defined before the If with their
\* values, and local_blob, which only the then-branch defines, is absent.
C8_NoElseFalseIsNoOp ==
    /\ (last.ev = "if" /\ ~last.hasElse /\ last.val = 0) =>
          /\ Len(ctl) = last.depth
          /\ Len(scopes) = Len(ctl)
          /\ err = "none"
          /\ phase = "fwd"
    /\ (net.id = "if_no_else" /\ net.x <= 0) =>
          /\ (last.ev = "if" \/ phase = "done") =>
                (scopes = << BeforeIf2 >> /\ FetchFails("local_blob"))
          /\ ~faulty => (err = "none" /\ phase # "failed")
          /\ \A d \in 1..Len(scopes) : "local_blob" \notin DOMAIN scopes[d]

C8_Witness ==
    /\ net.id = "if_no_else"
    /\ phase = "done"
    /\ last.ev = "fwd-done"
    /\ scopes[1]["c1"] = 0
    /\ err = "none"

\* C9: a net that reads a blob not defined earlier in the same block or in
\* a parent block is refused at construction with UndefinedInput; when it
\* was not checked at construction, the operator that reads the blob raises
\* UndefinedInput and does not run.  The else-branch of if_net_test_2 never
\* sees the then-branch's local_blob, and the operator reading it there
\* never writes z.  Nets that read only blobs defined earlier raise no
\* UndefinedInput.
C9_UndefinedInput ==
    /\ (net.id = "if_else_reads_local" /\ checked) =>
          /\ phase \in {"build", "rejected"}
          /\ nOps = 0
          /\ phase = "rejected" => err = "UndefinedInput"
    /\ net.id = "if_else_reads_local" =>
          /\ \A d \in 1..Len(scopes) : "z" \notin DOMAIN scopes[d]
          /\ (~checked /\ net.x <= 0) => phase # "done"
    /\ last.ev = "undef" =>
          /\ err = "UndefinedInput"
          /\ phase = "unwind"
          /\ \E n \in Ins(CurOp) : ~Visible(scopes, n)
    /\ last.ev = "op" =>
          \A n \in Ins(Top.ops[Top.pc - 1]) : Visible(scopes, n)
    /\ (Top.kind = "else" /\ Len(ctl) = 2) => ~Visible(scopes, "local_blob")
    /\ net.id # "if_else_reads_local" => err # "UndefinedInput"

C9_Witness ==
    /\ net.id = "if_else_reads_local"
    /\ ~checked
    /\ ~faulty
    /\ phase = "failed"
    /\ err = "UndefinedInput"
    /\ last.val = 2

\* C10: when an operator fails in a block at any depth, no operator runs
\* afterwards, nothing is written any more, every enclosing construct
\* disposes the workspace it created, and when the run has ended, with
\* success or with the error, only the outermost workspace exists and it
\* holds no blob of a nested block.
C10_State ==
    /\ Len(scopes) = Len(ctl)
    /\ Ended =>
          /\ Len(scopes) = 1
          /\ DOMAIN scopes[1] \subseteq Intro(1)
    /\ phase = "failed" => err # "none"
    /\ err # "none" => phase \in {"unwind", "failed", "rejected"}

C10_Step ==
    err # "none" =>
        /\ nOps' = nOps
        /\ err' = err
        /\ scopes'[1] = scopes[1]
        /\ Len(scopes') <= Len(scopes)
        /\ trace' = trace
        /\ loops' = loops
        /\ phase' \in {"unwind", "failed"}

C10_ErrorsDisposeScopes == []C10_State /\ [][C10_Step]_vars

C10_Witness ==
    /\ net.id = "while_grad"
    /\ phase = "failed"
    /\ err = "OperatorFailure"
    /\ last.val = 3
    /\ nOps = 21
    /\ Len(scopes) = 1

\* The If operator whose step was the last one.
LastIf == ctl[last.depth].ops[ctl[last.depth].pc]

\* The net whose else-branch reads local_blob, run with a true condition.
UntakenElseReadsUndefined == net.id = "if_else_reads_local" /\ net.x > 0

\* C11 as stated: every If step creates exactly one workspace, and the net
\* whose untaken else-branch reads an undefined blob raises no error.
C11_AsStated ==
    /\ last.ev = "if" => Len(scopes) = last.depth + 1
    /\ UntakenElseReadsUndefined =>
          /\ err = "none"
          /\ phase # "rejected"

\* C11, amended: an If step creates one fresh workspace when a branch is
\* taken and none when no branch is taken, and the block it enters is the
\* taken branch; the other branch is never entered and writes nothing.  A
\* net whose untaken else-branch reads an undefined blob is refused at
\* construction with UndefinedInput when it is built with NetBuilder's
\* sanity checks, whatever the condition; only when it was not checked at
\* construction does it run to the end without error and without a write
\* by the else-branch.
C11_UntakenBranchInert ==
    /\ last.ev = "if" =>
          /\ Len(scopes) = Len(ctl)
          /\ Len(scopes) \in {last.depth, last.depth + 1}
          /\ Len(scopes) = last.depth + 1 <=> (last.val = 1 \/ last.hasElse)
          /\ Len(scopes) = last.depth + 1 =>
                /\ scopes[Len(scopes)] = EmptyScope
                /\ Top.ops = IF last.val = 1 THEN LastIf.then ELSE LastIf.else
    /\ (UntakenElseReadsUndefined /\ checked) =>
          /\ phase \in {"build", "rejected"}
          /\ phase = "rejected" => (err = "UndefinedInput" /\ nOps = 0)
    /\ (UntakenElseReadsUndefined /\ ~checked) =>
          /\ err \in {"none", "OperatorFailure"}
          /\ ~faulty => (err = "none" /\ phase \notin {"failed", "rejected"})
          /\ \A d \in 1..Len(ctl) : ctl[d].kind = "else" => d = 3
          /\ \A d \in 1..Len(scopes) : "z" \notin DOMAIN scopes[d]
          /\ phase = "done" =>
                FetchIs("y", IF net.x > Whole(1) THEN Whole(2) ELSE Whole(1))

C11_Witness ==
    /\ UntakenElseReadsUndefined
    /\ ~checked
    /\ phase = "done"
    /\ err = "none"
    /\ FetchFails("z")
    /\ FetchIs("y", Whole(2))

=============================================================================
